---- MODULE Spec2Model ----
(***************************************************************************)
(* State machine of the Skull King scorer: the session state held by the   *)
(* SkullKingScorer component and the handlers that mutate it.  Every       *)
(* handler is a pure operator from the session record it closes over to    *)
(* the session record after its setters have been applied; an action       *)
(* applies one handler on the screen that renders its control.  Two fields *)
(* of the record observe the path a call took: alert is the message       *)
(* finishRound shows, branch names the handler whose guard returned early  *)
(* or whose confirmation was declined, the path finishRound took, and the  *)
(* setBid that found no entry to spread.                                   *)
(* confirmedFrom and pushed are history variables: the state the last      *)
(* confirmBids left, and every snapshot handed to the undo log.  stored is  *)
(* the browser's localStorage under the seven skullking_ keys.             *)
(***************************************************************************)
EXTENDS Integers, Sequences, FiniteSets, TLC

VARIABLES gameStarted, players, currentRound, roundPhase, roundData,
          gameHistory, phaseHistory, alert, branch, confirmedFrom, pushed, stored

vars == <<gameStarted, players, currentRound, roundPhase, roundData,
          gameHistory, phaseHistory, alert, branch, confirmedFrom, pushed, stored>>

(***************************************************************************)
(* Bounds of the exploration.                                              *)
(***************************************************************************)
\* rounds whose bids the exploration confirms
MaxRound == 2
\* largest roster the exploration starts a game with
MaxStartPlayers == 2
\* player indices below this bound receive trick edits
EditPlayers == 2
\* player indices below this bound receive bid and bonus edits
BonusPlayers == 1
\* largest bid the exploration enters
MaxBid == 1
\* largest pirate count the exploration steps up to
MaxPirates == 0
\* rounds whose bids are confirmed when every roster size is explored
RosterMaxRound == 1
\* snapshots pushed onto the undo log taken as a stack
MaxPushes == 25
\* last rounds of a game the late-game exploration plays
LateRounds == 1

(***************************************************************************)
(* Program constants.                                                      *)
(***************************************************************************)
MaxPlayers == 6
LastRound == 10
MaxSnapshots == 20
MaxPiratesCapture == 5

\* player indices whose tricks the late-game exploration edits
LateTrickPlayers == {0}

\* steps handed to updateTricks and updatePiratesCapture when their clamps
\* are explored: the steppers' -1 and +1, and steps past every range
ClampDeltas == {-11, -1, 1, 11}

\* text typed into the name field: empty, blank, and a name with padding
NameInputs == { <<>>, <<" ">>, <<" ", "A", " ">> }

(***************************************************************************)
(* Helpers for JavaScript values.                                          *)
(***************************************************************************)
EmptyMap == [k \in {} |-> 0]

Min(a, b) == IF a < b THEN a ELSE b
Max(a, b) == IF a > b THEN a ELSE b
Abs(a) == IF a < 0 THEN 0 - a ELSE a

\* String.prototype.trim on a sequence of characters
RECURSIVE TrimLeft(_)
TrimLeft(s) == IF s # <<>> /\ Head(s) = " " THEN TrimLeft(Tail(s)) ELSE s

RECURSIVE TrimRight(_)
TrimRight(s) ==
    IF s # <<>> /\ s[Len(s)] = " " THEN TrimRight(SubSeq(s, 1, Len(s) - 1)) ELSE s

Trim(s) == TrimRight(TrimLeft(s))

\* player indices 0..n-1 of an array of length n
Indices(ps) == 0 .. (Len(ps) - 1)

\* Array.prototype.reduce((sum, x) => sum + f(x), 0) over a sequence of integers
RECURSIVE SumSeq(_)
SumSeq(s) == IF s = <<>> THEN 0 ELSE Head(s) + SumSeq(Tail(s))

\* sum of f[k] over the keys of a map
RECURSIVE SumOver(_, _)
SumOver(f, keys) ==
    IF keys = {} THEN 0
    ELSE LET k == CHOOSE x \in keys : TRUE
         IN f[k] + SumOver(f, keys \ {k})

ZeroRoundData == [bid |-> 0, tricks |-> 0, piratesCapture |-> 0, skullKingCapture |-> FALSE]

\* the session state after construction with nothing stored
Fresh ==
    [gameStarted |-> FALSE,
     players |-> <<>>,
     currentRound |-> 1,
     roundPhase |-> "bidding",
     roundData |-> EmptyMap,
     gameHistory |-> <<>>,
     phaseHistory |-> <<>>,
     alert |-> "none",
     branch |-> "none"]

\* the session record the handlers of the current render close over
Live ==
    [gameStarted |-> gameStarted,
     players |-> players,
     currentRound |-> currentRound,
     roundPhase |-> roundPhase,
     roundData |-> roundData,
     gameHistory |-> gameHistory,
     phaseHistory |-> phaseHistory,
     alert |-> "none",
     branch |-> "none"]


(***************************************************************************)
(* Persisted fields: usePersistedState reads skullking_<key> once, when    *)
(* the component is constructed, and an effect writes the value back after *)
(* every render that changed it.                                           *)
(***************************************************************************)
Keys == {"gameStarted", "players", "currentRound", "roundPhase", "roundData",
         "gameHistory", "phaseHistory"}

\* localStorage.getItem returned null
NoItem == [item |-> "null"]
\* the empty string
EmptyText == [item |-> "empty"]
\* a text JSON.parse rejects
NotJSON == [item |-> "text", json |-> FALSE]
\* JSON.stringify(value): a text JSON.parse reads back as value
JSONText(value) == [item |-> "text", json |-> TRUE, value |-> value]

\* usePersistedState of the standalone skull-king-scorer.tsx: JSON.parse is
\* not guarded, a text it rejects throws out of the initializer
usePersistedStateStandalone(item, initialValue) ==
    IF item \in {NoItem, EmptyText} THEN [threw |-> FALSE, value |-> initialValue]
    ELSE IF item.json THEN [threw |-> FALSE, value |-> item.value]
    ELSE [threw |-> TRUE]

\* the initializer of usePersistedState: stored ? JSON.parse(stored) : initialValue
\* inside try, initialValue from catch
usePersistedState(item, initialValue) ==
    IF item \in {NoItem, EmptyText} THEN [threw |-> FALSE, value |-> initialValue]
    ELSE IF item.json THEN [threw |-> FALSE, value |-> item.value]
    ELSE [threw |-> FALSE, value |-> initialValue]

\* the seven initializers of the standalone component, each with its default
ReadFieldsStandalone(items) ==
    [k \in Keys |-> usePersistedStateStandalone(items[k], Fresh[k])]

\* the seven initializers of a first render, each with its default
ReadFields(items) ==
    [k \in Keys |-> usePersistedState(items[k], Fresh[k])]

\* the session of the first render, or none when an initializer threw
LoadSession(read) ==
    IF \E k \in Keys : read[k].threw
    THEN [Fresh EXCEPT !.branch = "usePersistedState:throws"]
    ELSE [gameStarted |-> read["gameStarted"].value,
          players |-> read["players"].value,
          currentRound |-> read["currentRound"].value,
          roundPhase |-> read["roundPhase"].value,
          roundData |-> read["roundData"].value,
          gameHistory |-> read["gameHistory"].value,
          phaseHistory |-> read["phaseHistory"].value,
          alert |-> "none",
          branch |-> "load"]

\* localStorage once the effects of every field have run
Persist(s) == [k \in Keys |-> JSONText(s[k])]

(***************************************************************************)
(* JSON.stringify and JSON.parse on the values of the seven fields.  A     *)
(* JSON text is kept as its value tree: a number is its decimal text, a     *)
(* string its characters, an array its items, an object its members by key  *)
(* text; the key of a roundData or scores entry is the decimal text of the  *)
(* player index.  JSONText(value) above stands for the tree of value.      *)
(***************************************************************************)
Digit == <<"0", "1", "2", "3", "4", "5", "6", "7", "8", "9">>

RECURSIVE NatText(_)
NatText(n) ==
    IF n < 10 THEN <<Digit[n + 1]>>
    ELSE NatText(n \div 10) \o <<Digit[(n % 10) + 1]>>

NumberText(n) == IF n < 0 THEN <<"-">> \o NatText(0 - n) ELSE NatText(n)

DigitValue(c) == CHOOSE d \in 0..9 : Digit[d + 1] = c

RECURSIVE NatOf(_)
NatOf(text) ==
    IF Len(text) = 1 THEN DigitValue(text[1])
    ELSE 10 * NatOf(SubSeq(text, 1, Len(text) - 1)) + DigitValue(text[Len(text)])

NumberOf(text) == IF text[1] = "-" THEN 0 - NatOf(Tail(text)) ELSE NatOf(text)

JNumber(n) == [type |-> "number", text |-> NumberText(n)]
JString(str) == [type |-> "string", text |-> str]
JBoolean(b) == [type |-> "boolean", text |-> IF b THEN "true" ELSE "false"]
JArray(items) == [type |-> "array", items |-> items]
JObject(members) == [type |-> "object", members |-> members]

\* a number, string or boolean read back from its text
ParseLeaf(j) ==
    CASE j.type = "number" -> NumberOf(j.text)
      [] j.type = "boolean" -> (j.text = "true")
      [] j.type = "string" -> j.text

\* the member of a Player, PlayerRoundData or RoundScore
StringifyMember(field, value) ==
    CASE field = "name" -> JString(value)
      [] field = "skullKingCapture" -> JBoolean(value)
      [] OTHER -> JNumber(value)

StringifyRecord(e) == JObject([field \in DOMAIN e |-> StringifyMember(field, e[field])])
ParseRecord(j) == [field \in DOMAIN j.members |-> ParseLeaf(j.members[field])]

\* roundData and scores: an object whose keys are the player indices
StringifyEntries(m) ==
    JObject([key \in {NumberText(i) : i \in DOMAIN m} |-> StringifyRecord(m[NumberOf(key)])])
ParseEntries(j) ==
    [i \in {NumberOf(key) : key \in DOMAIN j.members} |->
        ParseRecord(j.members[NumberText(i)])]

StringifyPlayers(ps) == JArray([p \in 1..Len(ps) |-> StringifyRecord(ps[p])])
ParsePlayers(j) == [p \in 1..Len(j.items) |-> ParseRecord(j.items[p])]

StringifyHistory(gh) ==
    JArray([h \in 1..Len(gh) |->
               JObject([round |-> JNumber(gh[h].round),
                        scores |-> StringifyEntries(gh[h].scores)])])
ParseHistory(j) ==
    [h \in 1..Len(j.items) |->
        [round |-> ParseLeaf(j.items[h].members.round),
         scores |-> ParseEntries(j.items[h].members.scores)]]

StringifySnapshot(snapshot) ==
    JObject([roundData |-> StringifyEntries(snapshot.roundData),
             players |-> StringifyPlayers(snapshot.players),
             currentRound |-> JNumber(snapshot.currentRound),
             roundPhase |-> JString(snapshot.roundPhase),
             gameHistory |-> StringifyHistory(snapshot.gameHistory)])
ParseSnapshot(j) ==
    [roundData |-> ParseEntries(j.members.roundData),
     players |-> ParsePlayers(j.members.players),
     currentRound |-> ParseLeaf(j.members.currentRound),
     roundPhase |-> ParseLeaf(j.members.roundPhase),
     gameHistory |-> ParseHistory(j.members.gameHistory)]

\* JSON.stringify(value) for the field stored under key
Stringify(key, value) ==
    CASE key = "gameStarted" -> JBoolean(value)
      [] key = "currentRound" -> JNumber(value)
      [] key = "roundPhase" -> JString(value)
      [] key = "players" -> StringifyPlayers(value)
      [] key = "roundData" -> StringifyEntries(value)
      [] key = "gameHistory" -> StringifyHistory(value)
      [] key = "phaseHistory" ->
            JArray([h \in 1..Len(value) |-> StringifySnapshot(value[h])])

\* JSON.parse of the text stored under key
Parse(key, j) ==
    CASE key \in {"gameStarted", "currentRound", "roundPhase"} -> ParseLeaf(j)
      [] key = "players" -> ParsePlayers(j)
      [] key = "roundData" -> ParseEntries(j)
      [] key = "gameHistory" -> ParseHistory(j)
      [] key = "phaseHistory" -> [h \in 1..Len(j.items) |-> ParseSnapshot(j.items[h])]

(***************************************************************************)
(* Roster handlers of the setup screen.                                    *)
(***************************************************************************)
\* addPlayer that tests the name as typed, not trimmed
addPlayerUntrimmed(s, playerName) ==
    IF playerName # <<>> /\ Len(s.players) < MaxPlayers
    THEN [s EXCEPT !.players = Append(s.players, [name |-> Trim(playerName), totalScore |-> 0])]
    ELSE [s EXCEPT !.branch = "addPlayer:skip"]

addPlayer(s, playerName) ==
    IF Trim(playerName) # <<>> /\ Len(s.players) < MaxPlayers
    THEN [s EXCEPT !.players = Append(s.players, [name |-> Trim(playerName), totalScore |-> 0])]
    ELSE [s EXCEPT !.branch = "addPlayer:skip"]

\* players.filter((_, i) => i !== index), index 0-based
removePlayer(s, index) ==
    [s EXCEPT !.players =
        SubSeq(s.players, 1, index) \o SubSeq(s.players, index + 2, Len(s.players))]

\* clearPlayers that does not wait for the confirmation
clearPlayersUnconfirmed(s, confirmed) == [s EXCEPT !.players = <<>>]

clearPlayers(s, confirmed) ==
    IF confirmed THEN [s EXCEPT !.players = <<>>] ELSE [s EXCEPT !.branch = "clearPlayers:skip"]

\* startGame that accepts a single player
startGameOnePlayer(s) ==
    IF Len(s.players) >= 1
    THEN [s EXCEPT !.branch = "startGame",
                   !.roundData = [i \in Indices(s.players) |-> ZeroRoundData],
                   !.gameStarted = TRUE,
                   !.phaseHistory = <<>>]
    ELSE [s EXCEPT !.branch = "startGame:skip"]

startGame(s) ==
    IF Len(s.players) >= 2
    THEN [s EXCEPT !.branch = "startGame",
                   !.roundData = [i \in Indices(s.players) |-> ZeroRoundData],
                   !.gameStarted = TRUE,
                   !.phaseHistory = <<>>]
    ELSE [s EXCEPT !.branch = "startGame:skip"]

(***************************************************************************)
(* Undo log.                                                               *)
(***************************************************************************)
\* the five fields a PhaseSnapshot copies
Snapshot(rd, ps, round, phase, gh) ==
    [roundData |-> rd, players |-> ps, currentRound |-> round,
     roundPhase |-> phase, gameHistory |-> gh]

\* PushSnapshot that drops the newest snapshot (pop() for shift())
PushSnapshotDropsNewest(log, snapshot) ==
    LET newHistory == Append(log, snapshot)
    IN IF Len(newHistory) > MaxSnapshots
       THEN SubSeq(newHistory, 1, Len(newHistory) - 1) ELSE newHistory

\* [...phaseHistory, snapshot], then shift() when longer than 20
PushSnapshot(log, snapshot) ==
    LET newHistory == Append(log, snapshot)
    IN IF Len(newHistory) > MaxSnapshots THEN Tail(newHistory) ELSE newHistory

\* savePhaseSnapshot that records the phase as scoring
savePhaseSnapshotAsScoring(s) ==
    [s EXCEPT !.phaseHistory =
        PushSnapshot(s.phaseHistory,
                     Snapshot(s.roundData, s.players, s.currentRound, "scoring", s.gameHistory))]

savePhaseSnapshot(s) ==
    [s EXCEPT !.phaseHistory =
        PushSnapshot(s.phaseHistory,
                     Snapshot(s.roundData, s.players, s.currentRound, s.roundPhase, s.gameHistory))]

\* performUndo that restores everything but roundData
performUndoKeepsData(s) ==
    IF Len(s.phaseHistory) = 0 THEN [s EXCEPT !.branch = "performUndo:skip"]
    ELSE LET snapshot == s.phaseHistory[Len(s.phaseHistory)]
         IN [s EXCEPT !.branch = "performUndo",
                      !.phaseHistory = SubSeq(s.phaseHistory, 1, Len(s.phaseHistory) - 1),
                      !.players = snapshot.players,
                      !.currentRound = snapshot.currentRound,
                      !.roundPhase = snapshot.roundPhase,
                      !.gameHistory = snapshot.gameHistory]

\* performUndo that clears the round inputs when the log is empty
performUndoClearsInputs(s) ==
    IF Len(s.phaseHistory) = 0
    THEN [s EXCEPT !.branch = "performUndo",
                   !.roundData = [i \in DOMAIN s.roundData |-> ZeroRoundData]]
    ELSE LET snapshot == s.phaseHistory[Len(s.phaseHistory)]
         IN [s EXCEPT !.branch = "performUndo",
                      !.phaseHistory = SubSeq(s.phaseHistory, 1, Len(s.phaseHistory) - 1),
                      !.roundData = snapshot.roundData,
                      !.players = snapshot.players,
                      !.currentRound = snapshot.currentRound,
                      !.roundPhase = snapshot.roundPhase,
                      !.gameHistory = snapshot.gameHistory]

\* performUndo that leaves gameHistory as it is
performUndoKeepsHistory(s) ==
    IF Len(s.phaseHistory) = 0 THEN [s EXCEPT !.branch = "performUndo:skip"]
    ELSE LET snapshot == s.phaseHistory[Len(s.phaseHistory)]
         IN [s EXCEPT !.branch = "performUndo",
                      !.phaseHistory = SubSeq(s.phaseHistory, 1, Len(s.phaseHistory) - 1),
                      !.roundData = snapshot.roundData,
                      !.players = snapshot.players,
                      !.currentRound = snapshot.currentRound,
                      !.roundPhase = snapshot.roundPhase]

\* performUndo that reads the newest snapshot without removing it
performUndoKeepsSnapshot(s) ==
    IF Len(s.phaseHistory) = 0 THEN [s EXCEPT !.branch = "performUndo:skip"]
    ELSE LET snapshot == s.phaseHistory[Len(s.phaseHistory)]
         IN [s EXCEPT !.branch = "performUndo",
                      !.roundData = snapshot.roundData,
                      !.players = snapshot.players,
                      !.currentRound = snapshot.currentRound,
                      !.roundPhase = snapshot.roundPhase,
                      !.gameHistory = snapshot.gameHistory]

performUndo(s) ==
    IF Len(s.phaseHistory) = 0 THEN [s EXCEPT !.branch = "performUndo:skip"]
    ELSE LET snapshot == s.phaseHistory[Len(s.phaseHistory)]
         IN [s EXCEPT !.branch = "performUndo",
                      !.phaseHistory = SubSeq(s.phaseHistory, 1, Len(s.phaseHistory) - 1),
                      !.roundData = snapshot.roundData,
                      !.players = snapshot.players,
                      !.currentRound = snapshot.currentRound,
                      !.roundPhase = snapshot.roundPhase,
                      !.gameHistory = snapshot.gameHistory]

(***************************************************************************)
(* Round input handlers.                                                   *)
(***************************************************************************)
\* setBid that writes a fresh entry holding the bid, dropping the entry's
\* other fields
setBidResetsEntry(s, playerIndex, value) ==
    [s EXCEPT !.branch = IF playerIndex \in DOMAIN s.roundData THEN "none" ELSE "setBid:absent",
              !.roundData =
                 [k \in DOMAIN s.roundData \cup {playerIndex} |->
                    IF k = playerIndex THEN [ZeroRoundData EXCEPT !.bid = value]
                    ELSE s.roundData[k]]]

\* { ...prev, [playerIndex]: { ...prev[playerIndex], bid: value } }: an absent
\* entry spreads to nothing, so the new entry holds the bid alone
setBid(s, playerIndex, value) ==
    LET prev == s.roundData
        entry == IF playerIndex \in DOMAIN prev
                 THEN [prev[playerIndex] EXCEPT !.bid = value]
                 ELSE [bid |-> value]
    IN [s EXCEPT !.branch = IF playerIndex \in DOMAIN prev THEN "none" ELSE "setBid:absent",
                 !.roundData =
            [k \in (DOMAIN prev) \cup {playerIndex} |-> IF k = playerIndex THEN entry ELSE prev[k]]]

\* updateTricks without the upper clamp at currentRound
updateTricksNoCeiling(s, playerIndex, delta) ==
    IF playerIndex \notin DOMAIN s.roundData THEN [s EXCEPT !.branch = "updateTricks:skip"]
    ELSE [s EXCEPT !.roundData[playerIndex].tricks =
            Max(0, s.roundData[playerIndex].tricks + delta)]

updateTricks(s, playerIndex, delta) ==
    IF playerIndex \notin DOMAIN s.roundData THEN [s EXCEPT !.branch = "updateTricks:skip"]
    ELSE [s EXCEPT !.roundData[playerIndex].tricks =
            Max(0, Min(s.currentRound, s.roundData[playerIndex].tricks + delta))]

updatePiratesCapture(s, playerIndex, delta) ==
    IF playerIndex \notin DOMAIN s.roundData THEN [s EXCEPT !.branch = "updatePiratesCapture:skip"]
    ELSE [s EXCEPT !.roundData[playerIndex].piratesCapture =
            Max(0, Min(MaxPiratesCapture, s.roundData[playerIndex].piratesCapture + delta))]

toggleSkullKingCapture(s, playerIndex) ==
    IF playerIndex \notin DOMAIN s.roundData THEN [s EXCEPT !.branch = "toggleSkullKingCapture:skip"]
    ELSE [s EXCEPT !.roundData[playerIndex].skullKingCapture =
            ~ s.roundData[playerIndex].skullKingCapture]

(***************************************************************************)
(* Scoring.                                                                *)
(***************************************************************************)
\* calculateScore without the Skull King bonus
calculateScoreNoSkull(data, round) ==
    IF data.bid = 0
    THEN IF data.tricks = 0 THEN round * 10 ELSE 0 - (round * 10)
    ELSE IF data.bid = data.tricks
         THEN data.tricks * 20 + data.piratesCapture * 30
         ELSE (0 - Abs(data.bid - data.tricks)) * 10

\* calculateScore that pays the capture bonuses on a missed bid as well
calculateScoreBonusOnMiss(data, round) ==
    IF data.bid = 0
    THEN IF data.tricks = 0 THEN round * 10 ELSE 0 - (round * 10)
    ELSE IF data.bid = data.tricks
         THEN data.tricks * 20 + data.piratesCapture * 30
              + (IF data.skullKingCapture THEN 50 ELSE 0)
         ELSE (0 - Abs(data.bid - data.tricks)) * 10 + data.piratesCapture * 30
              + (IF data.skullKingCapture THEN 50 ELSE 0)

calculateScore(data, round) ==
    IF data.bid = 0
    THEN IF data.tricks = 0 THEN round * 10 ELSE 0 - (round * 10)
    ELSE IF data.bid = data.tricks
         THEN data.tricks * 20 + data.piratesCapture * 30
              + (IF data.skullKingCapture THEN 50 ELSE 0)
         ELSE (0 - Abs(data.bid - data.tricks)) * 10

\* confirmBids that takes its snapshot after the phase has changed
confirmBidsSnapshotsAfter(s) ==
    savePhaseSnapshot([s EXCEPT !.roundPhase = "scoring"])

confirmBids(s) ==
    [savePhaseSnapshot(s) EXCEPT !.roundPhase = "scoring"]

\* Object.values(roundData).reduce((sum, data) => sum + data.tricks, 0)
TotalTricks(rd) == SumOver([k \in DOMAIN rd |-> rd[k].tricks], DOMAIN rd)

\* findIndex that never finds the round
FindRoundIndexAbsent(gh, round) == 0

\* gameHistory.findIndex(entry => entry.round === round), 1-based, 0 when absent
FindRoundIndex(gh, round) ==
    IF \E j \in 1..Len(gh) : gh[j].round = round
    THEN CHOOSE j \in 1..Len(gh) :
            gh[j].round = round /\ \A h \in 1..(j - 1) : gh[h].round # round
    ELSE 0

\* PreviousRounds that keeps the entry being replaced
PreviousRoundsKeepAll(gh, idx) == gh

\* the history without the entry at position idx (all of it when idx = 0)
PreviousRounds(gh, idx) ==
    IF idx > 0 THEN SubSeq(gh, 1, idx - 1) \o SubSeq(gh, idx + 1, Len(gh)) ELSE gh

\* previousRounds.reduce((sum, entry) => sum + (entry.scores[i]?.score ?? 0), 0)
PreviousTotal(prevRounds, i) ==
    SumSeq([j \in 1..Len(prevRounds) |->
              IF i \in DOMAIN prevRounds[j].scores THEN prevRounds[j].scores[i].score ELSE 0])

\* RoundScores that scores every round as round 1
RoundScoresFirstRound(s) ==
    [i \in Indices(s.players) |->
        [bid |-> s.roundData[i].bid,
         tricks |-> s.roundData[i].tricks,
         piratesCapture |-> s.roundData[i].piratesCapture,
         skullKingCapture |-> s.roundData[i].skullKingCapture,
         score |-> calculateScore(s.roundData[i], 1)]]

\* roundScores[i] = { ...roundData[i], score }
RoundScores(s) ==
    [i \in Indices(s.players) |->
        [bid |-> s.roundData[i].bid,
         tricks |-> s.roundData[i].tricks,
         piratesCapture |-> s.roundData[i].piratesCapture,
         skullKingCapture |-> s.roundData[i].skullKingCapture,
         score |-> calculateScore(s.roundData[i], s.currentRound)]]

\* UpdatedPlayers that sorts the players by total, as the final standings do
UpdatedPlayersRanked(s) ==
    LET existingRoundIndex == FindRoundIndex(s.gameHistory, s.currentRound)
        previousRounds == PreviousRounds(s.gameHistory, existingRoundIndex)
    IN SortSeq([p \in 1..Len(s.players) |->
                   [s.players[p] EXCEPT !.totalScore =
                       PreviousTotal(previousRounds, p - 1)
                       + calculateScore(s.roundData[p - 1], s.currentRound)]],
               LAMBDA a, b : a.totalScore > b.totalScore)

UpdatedPlayers(s) ==
    LET existingRoundIndex == FindRoundIndex(s.gameHistory, s.currentRound)
        previousRounds == PreviousRounds(s.gameHistory, existingRoundIndex)
    IN [p \in 1..Len(s.players) |->
            [s.players[p] EXCEPT !.totalScore =
                PreviousTotal(previousRounds, p - 1)
                + calculateScore(s.roundData[p - 1], s.currentRound)]]

\* UpdatedHistory that appends even when the round has an entry
UpdatedHistoryAppends(s) ==
    Append(s.gameHistory, [round |-> s.currentRound, scores |-> RoundScores(s)])

UpdatedHistory(s) ==
    LET existingRoundIndex == FindRoundIndex(s.gameHistory, s.currentRound)
        entry == [round |-> s.currentRound, scores |-> RoundScores(s)]
    IN IF existingRoundIndex > 0
       THEN SubSeq(s.gameHistory, 1, existingRoundIndex - 1) \o <<entry>>
            \o SubSeq(s.gameHistory, existingRoundIndex + 1, Len(s.gameHistory))
       ELSE Append(s.gameHistory, entry)

\* CommitRound that leaves the round inputs in place for the next round
CommitRoundKeepsData(s) ==
    LET updatedPlayers == UpdatedPlayers(s)
        updatedHistory == UpdatedHistory(s)
        path == IF FindRoundIndex(s.gameHistory, s.currentRound) > 0
                THEN "finishRound:replace" ELSE "finishRound:append"
    IN IF s.currentRound < LastRound
       THEN [s EXCEPT !.branch = path,
                      !.gameHistory = updatedHistory,
                      !.players = updatedPlayers,
                      !.phaseHistory =
                          PushSnapshot(s.phaseHistory,
                                       Snapshot(s.roundData, updatedPlayers, s.currentRound,
                                                "scoring", updatedHistory)),
                      !.currentRound = s.currentRound + 1,
                      !.roundPhase = "bidding"]
       ELSE [s EXCEPT !.branch = path,
                      !.gameHistory = updatedHistory,
                      !.players = updatedPlayers,
                      !.roundPhase = "complete"]

\* CommitRound whose snapshot holds the players and history from before the update
CommitRoundStaleSnapshot(s) ==
    LET updatedPlayers == UpdatedPlayers(s)
        updatedHistory == UpdatedHistory(s)
        path == IF FindRoundIndex(s.gameHistory, s.currentRound) > 0
                THEN "finishRound:replace" ELSE "finishRound:append"
    IN IF s.currentRound < LastRound
       THEN [s EXCEPT !.branch = path,
                      !.gameHistory = updatedHistory,
                      !.players = updatedPlayers,
                      !.phaseHistory =
                          PushSnapshot(s.phaseHistory,
                                       Snapshot(s.roundData, s.players, s.currentRound,
                                                "scoring", s.gameHistory)),
                      !.roundData = [i \in Indices(updatedPlayers) |-> ZeroRoundData],
                      !.currentRound = s.currentRound + 1,
                      !.roundPhase = "bidding"]
       ELSE [s EXCEPT !.branch = path,
                      !.gameHistory = updatedHistory,
                      !.players = updatedPlayers,
                      !.roundPhase = "complete"]

\* CommitRound that moves on to a next round after the last one as well
CommitRoundPastLast(s) ==
    LET updatedPlayers == UpdatedPlayers(s)
        updatedHistory == UpdatedHistory(s)
        path == IF FindRoundIndex(s.gameHistory, s.currentRound) > 0
                THEN "finishRound:replace" ELSE "finishRound:append"
    IN [s EXCEPT !.branch = path,
                 !.gameHistory = updatedHistory,
                 !.players = updatedPlayers,
                 !.phaseHistory =
                     PushSnapshot(s.phaseHistory,
                                  Snapshot(s.roundData, updatedPlayers, s.currentRound,
                                           "scoring", updatedHistory)),
                 !.roundData = [i \in Indices(updatedPlayers) |-> ZeroRoundData],
                 !.currentRound = s.currentRound + 1,
                 !.roundPhase = "bidding"]

\* CommitRound that pushes its snapshot in the last round as well
CommitRoundLastPushes(s) ==
    LET updatedPlayers == UpdatedPlayers(s)
        updatedHistory == UpdatedHistory(s)
        path == IF FindRoundIndex(s.gameHistory, s.currentRound) > 0
                THEN "finishRound:replace" ELSE "finishRound:append"
        pushedLog == PushSnapshot(s.phaseHistory,
                                  Snapshot(s.roundData, updatedPlayers, s.currentRound,
                                           "scoring", updatedHistory))
    IN IF s.currentRound < LastRound
       THEN [s EXCEPT !.branch = path,
                      !.gameHistory = updatedHistory,
                      !.players = updatedPlayers,
                      !.phaseHistory = pushedLog,
                      !.roundData = [i \in Indices(updatedPlayers) |-> ZeroRoundData],
                      !.currentRound = s.currentRound + 1,
                      !.roundPhase = "bidding"]
       ELSE [s EXCEPT !.branch = path,
                      !.gameHistory = updatedHistory,
                      !.players = updatedPlayers,
                      !.phaseHistory = pushedLog,
                      !.roundPhase = "complete"]

\* CommitRound that starts the next round with an empty roundData
CommitRoundEmptiesData(s) ==
    LET updatedPlayers == UpdatedPlayers(s)
        updatedHistory == UpdatedHistory(s)
        path == IF FindRoundIndex(s.gameHistory, s.currentRound) > 0
                THEN "finishRound:replace" ELSE "finishRound:append"
    IN IF s.currentRound < LastRound
       THEN [s EXCEPT !.branch = path,
                      !.gameHistory = updatedHistory,
                      !.players = updatedPlayers,
                      !.phaseHistory =
                          PushSnapshot(s.phaseHistory,
                                       Snapshot(s.roundData, updatedPlayers, s.currentRound,
                                                "scoring", updatedHistory)),
                      !.roundData = EmptyMap,
                      !.currentRound = s.currentRound + 1,
                      !.roundPhase = "bidding"]
       ELSE [s EXCEPT !.branch = path,
                      !.gameHistory = updatedHistory,
                      !.players = updatedPlayers,
                      !.roundPhase = "complete"]

\* the part of finishRound after the validation
CommitRound(s) ==
    LET updatedPlayers == UpdatedPlayers(s)
        updatedHistory == UpdatedHistory(s)
        path == IF FindRoundIndex(s.gameHistory, s.currentRound) > 0
                THEN "finishRound:replace" ELSE "finishRound:append"
    IN IF s.currentRound < LastRound
       THEN [s EXCEPT !.branch = path,
                      !.gameHistory = updatedHistory,
                      !.players = updatedPlayers,
                      !.phaseHistory =
                          PushSnapshot(s.phaseHistory,
                                       Snapshot(s.roundData, updatedPlayers, s.currentRound,
                                                "scoring", updatedHistory)),
                      !.roundData = [i \in Indices(updatedPlayers) |-> ZeroRoundData],
                      !.currentRound = s.currentRound + 1,
                      !.roundPhase = "bidding"]
       ELSE [s EXCEPT !.branch = path,
                      !.gameHistory = updatedHistory,
                      !.players = updatedPlayers,
                      !.roundPhase = "complete"]

finishRound(s) ==
    IF TotalTricks(s.roundData) # s.currentRound
    THEN [s EXCEPT !.alert = "totalTricks", !.branch = "finishRound:invalid"]
    ELSE CommitRound(s)

\* finishRound of the standalone skull-king-scorer.tsx: no validation
finishRoundStandalone(s) == CommitRound(s)

\* resetGame that leaves the round counter where the game ended
resetGameKeepsRound(s) ==
    [s EXCEPT !.branch = "resetGame",
              !.players = [p \in 1..Len(s.players) |-> [s.players[p] EXCEPT !.totalScore = 0]],
              !.gameStarted = FALSE,
              !.roundPhase = "bidding",
              !.roundData = EmptyMap,
              !.gameHistory = <<>>,
              !.phaseHistory = <<>>]

\* resetGame that leaves the totals of the game that ended
resetGameKeepsTotals(s) ==
    [s EXCEPT !.branch = "resetGame",
              !.gameStarted = FALSE,
              !.currentRound = 1,
              !.roundPhase = "bidding",
              !.roundData = EmptyMap,
              !.gameHistory = <<>>,
              !.phaseHistory = <<>>]

\* resetGame that leaves the history of the game that ended
resetGameKeepsHistory(s) ==
    [s EXCEPT !.branch = "resetGame",
              !.players = [p \in 1..Len(s.players) |-> [s.players[p] EXCEPT !.totalScore = 0]],
              !.gameStarted = FALSE,
              !.currentRound = 1,
              !.roundPhase = "bidding",
              !.roundData = EmptyMap,
              !.phaseHistory = <<>>]

resetGame(s) ==
    [s EXCEPT !.branch = "resetGame",
              !.players = [p \in 1..Len(s.players) |-> [s.players[p] EXCEPT !.totalScore = 0]],
              !.gameStarted = FALSE,
              !.currentRound = 1,
              !.roundPhase = "bidding",
              !.roundData = EmptyMap,
              !.gameHistory = <<>>,
              !.phaseHistory = <<>>]

\* endGameEarly that adds the round in progress to the totals
endGameEarlyScoresRound(s, confirmed) ==
    IF confirmed THEN [s EXCEPT !.roundPhase = "complete", !.players = UpdatedPlayers(s)]
    ELSE [s EXCEPT !.branch = "endGameEarly:skip"]

\* endGameEarly that takes a checkpoint before it ends the game
endGameEarlySaves(s, confirmed) ==
    IF confirmed THEN [savePhaseSnapshot(s) EXCEPT !.roundPhase = "complete"]
    ELSE [s EXCEPT !.branch = "endGameEarly:skip"]

endGameEarly(s, confirmed) ==
    IF confirmed THEN [s EXCEPT !.roundPhase = "complete"]
    ELSE [s EXCEPT !.branch = "endGameEarly:skip"]

(***************************************************************************)
(* Screens: the component renders exactly one of them.                     *)
(***************************************************************************)
SetupScreen == ~ gameStarted
CompleteScreen == gameStarted /\ roundPhase = "complete"
BiddingScreen == gameStarted /\ roundPhase = "bidding"
ScoringScreen == gameStarted /\ roundPhase \notin {"complete", "bidding"}

\* the five fields an undo restores, with the undo log itself
Restorable(s) ==
    [roundData |-> s.roundData, players |-> s.players, currentRound |-> s.currentRound,
     roundPhase |-> s.roundPhase, gameHistory |-> s.gameHistory,
     phaseHistory |-> s.phaseHistory]

\* confirmedFrom once a round input has been edited since the confirmation
Edited(from) == IF from = <<>> THEN from ELSE <<from[1], TRUE>>

\* Apply whose effect for the undo log does not run
ApplyLogUnsaved(t, from) ==
    /\ gameStarted' = t.gameStarted
    /\ players' = t.players
    /\ currentRound' = t.currentRound
    /\ roundPhase' = t.roundPhase
    /\ roundData' = t.roundData
    /\ gameHistory' = t.gameHistory
    /\ phaseHistory' = t.phaseHistory
    /\ alert' = t.alert
    /\ branch' = t.branch
    /\ confirmedFrom' = from
    /\ pushed' = pushed
    /\ stored' = [k \in Keys |-> IF t[k] = Live[k] \/ k = "phaseHistory" THEN stored[k]
                                  ELSE JSONText(t[k])]

\* the re-render after a handler has run: every setter's value is live
Apply(t, from) ==
    /\ gameStarted' = t.gameStarted
    /\ players' = t.players
    /\ currentRound' = t.currentRound
    /\ roundPhase' = t.roundPhase
    /\ roundData' = t.roundData
    /\ gameHistory' = t.gameHistory
    /\ phaseHistory' = t.phaseHistory
    /\ alert' = t.alert
    /\ branch' = t.branch
    /\ confirmedFrom' = from
    /\ pushed' = pushed
    /\ stored' = [k \in Keys |-> IF t[k] = Live[k] THEN stored[k] ELSE JSONText(t[k])]

(***************************************************************************)
(* Actions: one per control of a screen.  A handler is taken to be         *)
(* callable whenever its screen is rendered; a control that is hidden or   *)
(* disabled within its screen (Undo on an empty log, Add at six players,   *)
(* the bonus steppers while the bid is not met) either repeats a guard the *)
(* handler makes itself or leads only to inputs the shown controls reach.  *)
(***************************************************************************)
AddPlayer ==
    /\ SetupScreen
    /\ \E playerName \in NameInputs : Apply(addPlayer(Live, playerName), <<>>)

RemovePlayer ==
    /\ SetupScreen
    /\ \E index \in Indices(players) : Apply(removePlayer(Live, index), <<>>)

ClearPlayers ==
    /\ SetupScreen
    /\ \E confirmed \in BOOLEAN : Apply(clearPlayers(Live, confirmed), <<>>)

StartGame(maxStart) ==
    /\ SetupScreen
    /\ Len(players) <= maxStart
    /\ Apply(startGame(Live), <<>>)

SetBid(bidders) ==
    /\ BiddingScreen \/ ScoringScreen
    /\ \E playerIndex \in Indices(players) \cap (0 .. (bidders - 1)) :
       \E value \in 0 .. Min(currentRound, MaxBid) :
          Apply(setBid(Live, playerIndex, value),
                IF ScoringScreen THEN Edited(confirmedFrom) ELSE <<>>)

UpdateTricks ==
    /\ ScoringScreen
    /\ \E playerIndex \in Indices(players) \cap (0 .. (EditPlayers - 1)) :
       \E delta \in {-1, 1} :
          Apply(updateTricks(Live, playerIndex, delta), Edited(confirmedFrom))

\* the tricks stepper of the players in editors
UpdateTricksOf(editors) ==
    /\ ScoringScreen
    /\ \E playerIndex \in Indices(players) \cap editors :
       \E delta \in {-1, 1} :
          Apply(updateTricks(Live, playerIndex, delta), Edited(confirmedFrom))

UpdatePiratesCapture(maxPirates) ==
    /\ ScoringScreen
    /\ \E playerIndex \in Indices(players) \cap (0 .. (BonusPlayers - 1)) :
       \E delta \in {-1, 1} :
          /\ delta > 0 => roundData[playerIndex].piratesCapture < maxPirates
          /\ Apply(updatePiratesCapture(Live, playerIndex, delta), Edited(confirmedFrom))

ToggleSkullKingCapture ==
    /\ ScoringScreen
    /\ \E playerIndex \in Indices(players) \cap (0 .. (BonusPlayers - 1)) :
          Apply(toggleSkullKingCapture(Live, playerIndex), Edited(confirmedFrom))

ConfirmBids(maxRound) ==
    /\ BiddingScreen
    /\ currentRound <= maxRound
    /\ Apply(confirmBids(Live), <<Restorable(Live), FALSE>>)

\* confirmBids explored from round minRound on
ConfirmBidsFrom(minRound) ==
    /\ BiddingScreen
    /\ currentRound >= minRound
    /\ Apply(confirmBids(Live), <<Restorable(Live), FALSE>>)

FinishRound ==
    /\ ScoringScreen
    /\ Apply(finishRound(Live), <<>>)

FinishRoundStandalone ==
    /\ ScoringScreen
    /\ Apply(finishRoundStandalone(Live), <<>>)

\* an Undo control that the complete screen shows too
PerformUndoAnyScreen ==
    /\ gameStarted
    /\ Apply(performUndo(Live), IF ScoringScreen THEN confirmedFrom ELSE <<>>)

PerformUndo ==
    /\ BiddingScreen \/ ScoringScreen
    /\ Apply(performUndo(Live), IF ScoringScreen THEN confirmedFrom ELSE <<>>)

EndGameEarly ==
    /\ BiddingScreen \/ ScoringScreen
    /\ \E confirmed \in BOOLEAN : Apply(endGameEarly(Live, confirmed), <<>>)

ResetGame ==
    /\ CompleteScreen
    /\ Apply(resetGame(Live), <<>>)

Init ==
    /\ gameStarted = Fresh.gameStarted
    /\ players = Fresh.players
    /\ currentRound = Fresh.currentRound
    /\ roundPhase = Fresh.roundPhase
    /\ roundData = Fresh.roundData
    /\ gameHistory = Fresh.gameHistory
    /\ phaseHistory = Fresh.phaseHistory
    /\ alert = Fresh.alert
    /\ branch = Fresh.branch
    /\ confirmedFrom = <<>>
    /\ pushed = <<>>
    /\ stored = Persist(Fresh)

Next ==
    \/ AddPlayer
    \/ RemovePlayer
    \/ ClearPlayers
    \/ StartGame(MaxStartPlayers)
    \/ SetBid(BonusPlayers)
    \/ UpdateTricks
    \/ UpdatePiratesCapture(MaxPirates)
    \/ ToggleSkullKingCapture
    \/ ConfirmBids(MaxRound)
    \/ FinishRound
    \/ PerformUndo
    \/ EndGameEarly
    \/ ResetGame

Spec == Init /\ [][Next]_vars

(***************************************************************************)
(* The standalone component of skull-king-scorer.tsx: the same session     *)
(* with its own finishRound.                                               *)
(***************************************************************************)
NextStandalone ==
    \/ AddPlayer
    \/ RemovePlayer
    \/ ClearPlayers
    \/ StartGame(MaxStartPlayers)
    \/ SetBid(BonusPlayers)
    \/ UpdateTricks
    \/ UpdatePiratesCapture(MaxPirates)
    \/ ToggleSkullKingCapture
    \/ ConfirmBids(MaxRound)
    \/ FinishRoundStandalone
    \/ PerformUndo
    \/ EndGameEarly
    \/ ResetGame

SpecStandalone == Init /\ [][NextStandalone]_vars

(***************************************************************************)
(* The session explored with every roster size a game can start with.      *)
(***************************************************************************)
NextRoster ==
    \/ AddPlayer
    \/ RemovePlayer
    \/ ClearPlayers
    \/ StartGame(MaxPlayers)
    \/ SetBid(BonusPlayers)
    \/ UpdateTricks
    \/ UpdatePiratesCapture(MaxPirates)
    \/ ToggleSkullKingCapture
    \/ ConfirmBids(RosterMaxRound)
    \/ FinishRound
    \/ PerformUndo
    \/ EndGameEarly
    \/ ResetGame

SpecRoster == Init /\ [][NextRoster]_vars

(***************************************************************************)
(* Sessions built by the handlers alone, used as starting points.          *)
(***************************************************************************)
\* the setup screen after n names have been entered
RECURSIVE Seated(_)
Seated(n) == IF n = 0 THEN Fresh ELSE addPlayer(Seated(n - 1), <<"A">>)

\* a round in which player 0 bids nothing and takes every trick
PlayRound(s) == finishRound(updateTricks(confirmBids(s), 0, s.currentRound))

\* the bidding screen of round r of a game of n players
RECURSIVE Replay(_, _)
Replay(n, r) == IF r = 1 THEN startGame(Seated(n)) ELSE PlayRound(Replay(n, r - 1))

\* the scoring screen of round r after player 0's inputs were entered and
\* player 1 was given the remaining tricks
Entered(r, bid, tricks, pirates, skull) ==
    LET s0 == confirmBids(Replay(2, r))
        s1 == setBid(s0, 0, bid)
        s2 == updateTricks(s1, 0, tricks)
        s3 == updatePiratesCapture(s2, 0, pirates)
        s4 == IF skull THEN toggleSkullKingCapture(s3, 0) ELSE s3
    IN updateTricks(s4, 1, r - tricks)

\* the variables hold session t, no call observed yet
Holds(t) ==
    /\ gameStarted = t.gameStarted
    /\ players = t.players
    /\ currentRound = t.currentRound
    /\ roundPhase = t.roundPhase
    /\ roundData = t.roundData
    /\ gameHistory = t.gameHistory
    /\ phaseHistory = t.phaseHistory
    /\ alert = "none"
    /\ branch = "none"
    /\ confirmedFrom = <<>>
    /\ pushed = <<>>
    /\ stored = Persist(t)

(***************************************************************************)
(* The end of a game: the session from the bidding screen of one of the     *)
(* last rounds, reached by playing the rounds before it.                   *)
(***************************************************************************)
FirstLateRound == LastRound - LateRounds + 1

InitLate == Holds(Replay(2, FirstLateRound))

NextLate ==
    \/ StartGame(MaxStartPlayers)
    \/ SetBid(BonusPlayers)
    \/ UpdateTricksOf(LateTrickPlayers)
    \/ ToggleSkullKingCapture
    \/ ConfirmBidsFrom(FirstLateRound)
    \/ FinishRound
    \/ PerformUndo
    \/ EndGameEarly
    \/ ResetGame

SpecLate == InitLate /\ [][NextLate]_vars

(***************************************************************************)
(* The round input handlers as functions of their player index: each is     *)
(* called with the indices of the roster and with the first index past it, *)
(* which has no roundData entry.  An entry setBid created for that index    *)
(* holds a bid alone; the steppers and the toggle are not explored on it.   *)
(***************************************************************************)
\* the first index past the roster
AbsentIndex == Len(players)

\* roundData has no entry for the index, or one with all four fields
WholeOrAbsent(playerIndex) ==
    playerIndex \in DOMAIN roundData =>
       DOMAIN roundData[playerIndex] = DOMAIN ZeroRoundData

SetBidAt ==
    /\ BiddingScreen \/ ScoringScreen
    /\ \E playerIndex \in (Indices(players) \cap (0 .. (BonusPlayers - 1))) \cup {AbsentIndex} :
       \E value \in 0 .. Min(currentRound, MaxBid) :
          Apply(setBid(Live, playerIndex, value),
                IF ScoringScreen THEN Edited(confirmedFrom) ELSE <<>>)

UpdateTricksAt ==
    /\ ScoringScreen
    /\ \E playerIndex \in (Indices(players) \cap (0 .. (EditPlayers - 1))) \cup {AbsentIndex} :
       \E delta \in {-1, 1} :
          /\ WholeOrAbsent(playerIndex)
          /\ Apply(updateTricks(Live, playerIndex, delta), Edited(confirmedFrom))

UpdatePiratesCaptureAt ==
    /\ ScoringScreen
    /\ \E playerIndex \in (Indices(players) \cap (0 .. (BonusPlayers - 1))) \cup {AbsentIndex} :
       \E delta \in {-1, 1} :
          /\ WholeOrAbsent(playerIndex)
          /\ Apply(updatePiratesCapture(Live, playerIndex, delta), Edited(confirmedFrom))

ToggleSkullKingCaptureAt ==
    /\ ScoringScreen
    /\ \E playerIndex \in (Indices(players) \cap (0 .. (BonusPlayers - 1))) \cup {AbsentIndex} :
          /\ WholeOrAbsent(playerIndex)
          /\ Apply(toggleSkullKingCapture(Live, playerIndex), Edited(confirmedFrom))

InitInputs == \E r \in 1..MaxRound : Holds(Replay(2, r))

NextInputs ==
    \/ SetBidAt
    \/ UpdateTricksAt
    \/ UpdatePiratesCaptureAt
    \/ ToggleSkullKingCaptureAt
    \/ ConfirmBids(MaxRound)
    \/ PerformUndo

SpecInputs == InitInputs /\ [][NextInputs]_vars

(***************************************************************************)
(* The first render: each key of localStorage holds nothing, the empty     *)
(* text, a text that is not JSON, or what a game in the scoring phase of   *)
(* round 2 wrote.  The session is the one the initializers return; the     *)
(* effects of the first render then write every field back.                *)
(***************************************************************************)
\* a game of two in the scoring phase of round 2, player 0 bidding 1
Saved == confirmBids(setBid(Replay(2, 2), 0, 1))

StoredItems == [Keys -> {NoItem, EmptyText, NotJSON}] \cup
               {[k \in Keys |-> IF k \in damaged THEN item ELSE JSONText(Saved[k])] :
                   damaged \in SUBSET Keys, item \in {NoItem, EmptyText, NotJSON}}

\* the page before the component is constructed: nothing but localStorage
InitStored ==
    \E items \in StoredItems :
       /\ gameStarted = Fresh.gameStarted
       /\ players = Fresh.players
       /\ currentRound = Fresh.currentRound
       /\ roundPhase = Fresh.roundPhase
       /\ roundData = Fresh.roundData
       /\ gameHistory = Fresh.gameHistory
       /\ phaseHistory = Fresh.phaseHistory
       /\ alert = "none"
       /\ branch = "unmounted"
       /\ confirmedFrom = <<>>
       /\ pushed = <<>>
       /\ stored = items

\* a first render that constructs session t; localStorage is not written yet
Render(t) ==
    /\ branch = "unmounted"
    /\ gameStarted' = t.gameStarted
    /\ players' = t.players
    /\ currentRound' = t.currentRound
    /\ roundPhase' = t.roundPhase
    /\ roundData' = t.roundData
    /\ gameHistory' = t.gameHistory
    /\ phaseHistory' = t.phaseHistory
    /\ alert' = t.alert
    /\ branch' = t.branch
    /\ UNCHANGED <<confirmedFrom, pushed, stored>>

FirstRender == Render(LoadSession(ReadFields(stored)))

FirstRenderStandalone == Render(LoadSession(ReadFieldsStandalone(stored)))

\* the effects of the first render: localStorage.setItem for every field
MountEffects ==
    /\ branch = "load"
    /\ stored' = Persist(Live)
    /\ branch' = "none"
    /\ UNCHANGED <<gameStarted, players, currentRound, roundPhase, roundData,
                   gameHistory, phaseHistory, alert, confirmedFrom, pushed>>

NextLoad ==
    \/ FirstRender
    \/ MountEffects

SpecLoad == InitStored /\ [][NextLoad]_vars

NextLoadStandalone ==
    \/ FirstRenderStandalone
    \/ MountEffects

SpecLoadStandalone == InitStored /\ [][NextLoadStandalone]_vars

(***************************************************************************)
(* The last rounds together with the roster controls of the setup screen a  *)
(* resetGame returns to: every operation that could touch the undo log.     *)
(***************************************************************************)
NextCheckpoints ==
    \/ AddPlayer
    \/ RemovePlayer
    \/ ClearPlayers
    \/ StartGame(MaxStartPlayers)
    \/ SetBid(BonusPlayers)
    \/ UpdateTricksOf(LateTrickPlayers)
    \/ ToggleSkullKingCapture
    \/ ConfirmBidsFrom(FirstLateRound)
    \/ FinishRound
    \/ PerformUndo
    \/ EndGameEarly
    \/ ResetGame

SpecCheckpoints == InitLate /\ [][NextCheckpoints]_vars

(***************************************************************************)
(* The session explored from the complete screen of a game that was ended   *)
(* in round MaxRound: every later state follows a resetGame.               *)
(***************************************************************************)
GameOver == endGameEarly(Replay(2, MaxRound), TRUE)

InitRematch == Holds(GameOver)

SpecRematch == InitRematch /\ [][Next]_vars

(***************************************************************************)
(* The session explored from a crew of two players of different names, so   *)
(* that the order of the players shows.                                    *)
(***************************************************************************)
Crew == addPlayer(addPlayer(Fresh, <<"A">>), <<"B">>)

InitNames == Holds(Crew)

SpecNames == InitNames /\ [][NextRoster]_vars

(***************************************************************************)
(* The round inputs over their whole ranges: every bid button of the       *)
(* round, tricks and pirates stepped by ClampDeltas, through confirmBids,   *)
(* finishRound and undo.                                                   *)
(***************************************************************************)
\* the bid buttons 0..currentRound
SetBidInRound ==
    /\ BiddingScreen \/ ScoringScreen
    /\ \E playerIndex \in Indices(players) \cap (0 .. (BonusPlayers - 1)) :
       \E value \in 0 .. currentRound :
          Apply(setBid(Live, playerIndex, value),
                IF ScoringScreen THEN Edited(confirmedFrom) ELSE <<>>)

UpdateTricksBy ==
    /\ ScoringScreen
    /\ \E playerIndex \in Indices(players) \cap LateTrickPlayers :
       \E delta \in ClampDeltas :
          Apply(updateTricks(Live, playerIndex, delta), Edited(confirmedFrom))

UpdatePiratesCaptureBy ==
    /\ ScoringScreen
    /\ \E playerIndex \in Indices(players) \cap (0 .. (BonusPlayers - 1)) :
       \E delta \in ClampDeltas :
          Apply(updatePiratesCapture(Live, playerIndex, delta), Edited(confirmedFrom))

InitRange == Holds(Replay(2, MaxRound))

NextRange ==
    \/ SetBidInRound
    \/ UpdateTricksBy
    \/ UpdatePiratesCaptureBy
    \/ ConfirmBids(MaxRound)
    \/ FinishRound
    \/ PerformUndo

SpecRange == InitRange /\ [][NextRange]_vars

(***************************************************************************)
(* One round of a game of two with the bonus inputs over their whole       *)
(* ranges, from the setup screen through startGame, confirmBids,           *)
(* finishRound and undo.                                                   *)
(***************************************************************************)
InitBonus == Holds(Seated(2))

NextBonus ==
    \/ StartGame(MaxStartPlayers)
    \/ SetBid(BonusPlayers)
    \/ UpdateTricksOf(LateTrickPlayers)
    \/ UpdatePiratesCaptureBy
    \/ ToggleSkullKingCapture
    \/ ConfirmBids(RosterMaxRound)
    \/ FinishRound
    \/ PerformUndo

SpecBonus == InitBonus /\ [][NextBonus]_vars

(***************************************************************************)
(* calculateScore over its whole domain: every round, every input of       *)
(* player 0 within the round's range, then finishRound.                    *)
(***************************************************************************)
InitScore ==
    \E r \in 1..LastRound :
    \E bid \in 0..r, tricks \in 0..r :
    \E pirates \in 0..MaxPiratesCapture, skull \in BOOLEAN :
        Holds(Entered(r, bid, tricks, pirates, skull))

SpecScore == InitScore /\ [][FinishRound]_vars

(***************************************************************************)
(* The undo log as a bounded stack: PushSnapshot applied MaxPushes times   *)
(* to numbered snapshots, performUndo popping them.                        *)
(***************************************************************************)
InitLog == Holds(Replay(2, 1))

\* the snapshots still in the log when n were pushed and none popped
Kept(n) == Min(n, MaxSnapshots)

PushLog ==
    /\ Len(pushed) < MaxPushes
    /\ Len(phaseHistory) = Kept(Len(pushed))
    /\ LET snapshot == Snapshot(roundData, players, Len(pushed) + 1, "bidding", gameHistory)
       IN /\ phaseHistory' = PushSnapshot(phaseHistory, snapshot)
          /\ pushed' = Append(pushed, snapshot)
          /\ stored' = [stored EXCEPT !["phaseHistory"] =
                            JSONText(PushSnapshot(phaseHistory, snapshot))]
    /\ UNCHANGED <<gameStarted, players, currentRound, roundPhase, roundData,
                   gameHistory, alert, branch, confirmedFrom>>

NextLog ==
    \/ PushLog
    \/ PerformUndo

SpecLog == InitLog /\ [][NextLog]_vars


(***************************************************************************)
(* Properties.                                                             *)
(***************************************************************************)
\* the round inputs of a RoundScore or roundData entry
InputsOf(e) ==
    [bid |-> e.bid, tricks |-> e.tricks, piratesCapture |-> e.piratesCapture,
     skullKingCapture |-> e.skullKingCapture]

\* the session fields an undo restores, with the undo log
RestorableNow == Restorable(Live)

FinishCommitted == branch \in {"finishRound:append", "finishRound:replace"}
FinishInvoked == FinishCommitted \/ branch = "finishRound:invalid"

\* the score table of the rules, by case
ExpectedScore(bid, tricks, pirates, skull, r) ==
    CASE bid = 0 /\ tricks = 0 -> 10 * r
      [] bid = 0 /\ tricks > 0 -> 0 - 10 * r
      [] bid > 0 /\ bid = tricks -> 20 * tricks + 30 * pirates + (IF skull THEN 50 ELSE 0)
      [] bid > 0 /\ bid # tricks -> 0 - 10 * (IF bid > tricks THEN bid - tricks ELSE tricks - bid)

\* C1: for every bid and tricks in 0..r, piratesCapture in 0..5, skullKingCapture
\* and round r in 1..10, calculateScore returns 10r for a met zero bid, -10r for
\* a failed zero bid, 20*tricks + 30*pirates (+50 with the Skull King) for a met
\* bid, and -10*|bid - tricks| for a missed bid; the score finishRound stores is
\* that value.
C1_ScoreTable ==
    /\ ScoringScreen =>
          \A i \in DOMAIN roundData :
             calculateScore(roundData[i], currentRound)
                = ExpectedScore(roundData[i].bid, roundData[i].tricks,
                                roundData[i].piratesCapture,
                                roundData[i].skullKingCapture, currentRound)
    /\ FinishCommitted =>
          LET e == gameHistory[Len(gameHistory)]
          IN \A i \in DOMAIN e.scores :
                e.scores[i].score
                   = ExpectedScore(e.scores[i].bid, e.scores[i].tricks,
                                   e.scores[i].piratesCapture,
                                   e.scores[i].skullKingCapture, e.round)

\* C1 witness: round 5 finished with bid 2, 2 tricks, 1 pirate and the Skull
\* King stored as 120 points
C1_Witness ==
    /\ FinishCommitted
    /\ currentRound = 6
    /\ gameHistory[5].round = 5
    /\ gameHistory[5].scores[0] =
          [bid |-> 2, tricks |-> 2, piratesCapture |-> 1, skullKingCapture |-> TRUE,
           score |-> 120]

\* C2: a finishRound call made while the tricks of all roundData entries do not
\* sum to currentRound shows the validation message and leaves players,
\* gameHistory, currentRound, roundPhase, roundData and the undo log unchanged.
C2_InvalidFinishChangesNothing ==
    [][(ScoringScreen /\ TotalTricks(roundData) # currentRound /\ FinishInvoked')
          => /\ alert' = "totalTricks"
             /\ UNCHANGED <<players, gameHistory, currentRound, roundPhase, roundData,
                            phaseHistory>>]_vars

\* sum of player index i's scores over a history
HistoryTotal(gh, i) == SumSeq([j \in 1..Len(gh) |-> gh[j].scores[i].score])

\* C3: in every state of a started game each player's totalScore is the sum of
\* that player's scores over the entries now in gameHistory.
C3_TotalsMatchHistory ==
    gameStarted =>
       \A i \in Indices(players) :
          players[i + 1].totalScore = HistoryTotal(gameHistory, i)

\* C3 witness: round 2 was finished again after an undo, over a history of two
\* entries, with a non-zero total
C3_Witness ==
    /\ branch = "finishRound:replace"
    /\ Len(gameHistory) = 2
    /\ currentRound = 3
    /\ players[1].totalScore # 0
    /\ players[1].totalScore # players[2].totalScore

\* C4: a finishRound that passes validation in round r < 10 leaves an entry for
\* round r whose scores are the players' round inputs with their calculateScore,
\* moves to round r + 1 in the bidding phase and zeroes every roundData entry.
C4_FinishAdvances ==
    [][(ScoringScreen /\ FinishCommitted' /\ currentRound < LastRound)
          => /\ \E j \in 1..Len(gameHistory') :
                   /\ gameHistory'[j].round = currentRound
                   /\ DOMAIN gameHistory'[j].scores = Indices(players)
                   /\ \A i \in Indices(players) :
                         /\ InputsOf(gameHistory'[j].scores[i]) = roundData[i]
                         /\ gameHistory'[j].scores[i].score
                               = ExpectedScore(roundData[i].bid, roundData[i].tricks,
                                               roundData[i].piratesCapture,
                                               roundData[i].skullKingCapture, currentRound)
             /\ currentRound' = currentRound + 1
             /\ roundPhase' = "bidding"
             /\ roundData' = [i \in Indices(players) |-> ZeroRoundData]]_vars

\* C4 witness: round 1 finished with player 0 bidding 1 and taking the trick
C4_Witness ==
    /\ branch = "finishRound:append"
    /\ currentRound = 2
    /\ roundPhase = "bidding"
    /\ gameHistory[1].scores[0].score = 20
    /\ gameHistory[1].scores[1].score = 10
    /\ roundData = [i \in Indices(players) |-> ZeroRoundData]

\* C5: an undo made in the scoring phase a confirmBids opened, after any edits
\* of the round inputs, restores roundData, players, currentRound, roundPhase,
\* gameHistory and the undo log to their values before that confirmBids.
C5_ConfirmUndoRoundTrip ==
    (branch = "performUndo" /\ confirmedFrom # <<>>) => RestorableNow = confirmedFrom[1]

\* C5 witness: an undo after confirmBids and at least one edit, in round 2
C5_Witness ==
    /\ branch = "performUndo"
    /\ confirmedFrom # <<>>
    /\ confirmedFrom[2]
    /\ currentRound = 2
    /\ roundPhase = "bidding"

\* C6: an undo that restores a snapshot goes back one phase: from scoring of
\* round r to bidding of round r; from bidding of round r to scoring of round
\* r - 1 with the round inputs round r - 1 was finalized with and with players
\* and gameHistory holding that round's result.
C6_UndoOnePhaseBack ==
    [][(branch' = "performUndo")
          => \/ /\ roundPhase = "scoring"
                /\ roundPhase' = "bidding"
                /\ currentRound' = currentRound
             \/ /\ roundPhase = "bidding"
                /\ currentRound > 1
                /\ roundPhase' = "scoring"
                /\ currentRound' = currentRound - 1
                /\ \E j \in 1..Len(gameHistory') :
                      /\ gameHistory'[j].round = currentRound - 1
                      /\ \A i \in Indices(players') :
                            InputsOf(gameHistory'[j].scores[i]) = roundData'[i]
                /\ \A i \in Indices(players') :
                      players'[i + 1].totalScore = HistoryTotal(gameHistory', i)]_vars

\* C6 witness: an undo from the bidding phase of round 2 landed in the scoring
\* phase of round 1 with round 1 in the history
C6_Witness ==
    /\ branch = "performUndo"
    /\ roundPhase = "scoring"
    /\ currentRound = 1
    /\ Len(gameHistory) = 1
    /\ players[1].totalScore # 0

\* C7: an undo invoked with an empty undo log changes none of roundData,
\* players, currentRound, roundPhase, gameHistory and the log.
C7_UndoOnEmptyLog ==
    [][(phaseHistory = <<>> /\ branch' \in {"performUndo", "performUndo:skip"})
          => UNCHANGED <<roundData, players, currentRound, roundPhase, gameHistory,
                         phaseHistory>>]_vars

\* C7 witness: an undo returned early on an empty log while a bid was entered
C7_Witness ==
    /\ branch = "performUndo:skip"
    /\ phaseHistory = <<>>
    /\ gameStarted
    /\ roundData[0].bid = 1

\* C8: the undo log never holds more than 20 snapshots; after n pushes it holds
\* the most recent min(n, 20) in order, and pops return them newest first: after
\* k pops the session holds the k-th newest snapshot and the log the ones older.
C8_BoundedLog ==
    LET n == Len(pushed)
        lo == n - Kept(n) + 1
        k == Kept(n) - Len(phaseHistory)
    IN /\ Len(phaseHistory) <= MaxSnapshots
       /\ k >= 0
       /\ phaseHistory = SubSeq(pushed, lo, n - k)
       /\ k > 0 =>
             /\ currentRound = pushed[n - k + 1].currentRound
             /\ roundPhase = pushed[n - k + 1].roundPhase
             /\ roundData = pushed[n - k + 1].roundData
             /\ players = pushed[n - k + 1].players
             /\ gameHistory = pushed[n - k + 1].gameHistory

\* C8 witness: 25 snapshots pushed, 20 popped: the log is empty and the session
\* holds the 6th snapshot, the oldest one kept
C8_Witness ==
    /\ Len(pushed) = 25
    /\ phaseHistory = <<>>
    /\ branch = "performUndo"
    /\ currentRound = 6

\* no two entries of a history record the same round
UniqueRounds(gh) == \A j, h \in 1..Len(gh) : gh[j].round = gh[h].round => j = h

\* C9: gameHistory never holds two entries for one round; a finishRound that
\* passes validation replaces the entry of currentRound in place when there is
\* one, leaving the length and every other entry unchanged, and appends exactly
\* one entry otherwise.
C9_OneEntryPerRound ==
    [][/\ UniqueRounds(gameHistory')
       /\ (ScoringScreen /\ FinishCommitted') =>
             IF \E j \in 1..Len(gameHistory) : gameHistory[j].round = currentRound
             THEN /\ Len(gameHistory') = Len(gameHistory)
                  /\ \A j \in 1..Len(gameHistory) :
                        IF gameHistory[j].round = currentRound
                        THEN gameHistory'[j].round = currentRound
                        ELSE gameHistory'[j] = gameHistory[j]
             ELSE /\ Len(gameHistory') = Len(gameHistory) + 1
                  /\ SubSeq(gameHistory', 1, Len(gameHistory)) = gameHistory
                  /\ gameHistory'[Len(gameHistory')].round = currentRound]_vars

\* C9 witness: round 1 was finished again while round 1 had an entry, replaced
\* by one with another score
C9_Witness ==
    /\ branch = "finishRound:replace"
    /\ Len(gameHistory) = 1
    /\ gameHistory[1].round = 1
    /\ phaseHistory[Len(phaseHistory)].gameHistory = gameHistory
    /\ gameHistory[1].scores[0].score = 70

\* C10: a started game has between 2 and 6 players, and startGame with fewer
\* than 2 players changes nothing.
C10_StartedRoster ==
    [][/\ gameStarted' => (2 <= Len(players') /\ Len(players') <= MaxPlayers)
       /\ (SetupScreen /\ Len(players) < 2 /\ branch' \in {"startGame", "startGame:skip"})
             => UNCHANGED <<gameStarted, players, currentRound, roundPhase, roundData,
                            gameHistory, phaseHistory>>]_vars

\* C10 witness: a game started with six players
C10_Witness ==
    /\ gameStarted
    /\ branch = "startGame"
    /\ Len(players) = MaxPlayers

\* C11: after a startGame that succeeds, from the first setup screen or from one
\* a resetGame left (also after a game ended early), gameStarted is true,
\* currentRound is 1, roundPhase is bidding, the undo log is empty and roundData
\* holds a zero/false entry for exactly the indices 0..|players|-1.
C11_StartGameState ==
    branch = "startGame" =>
       /\ gameStarted
       /\ currentRound = 1
       /\ roundPhase = "bidding"
       /\ phaseHistory = <<>>
       /\ DOMAIN roundData = Indices(players)
       /\ \A i \in Indices(players) : roundData[i] = ZeroRoundData

\* C11 witness: a game of two players has just been started
C11_Witness ==
    /\ branch = "startGame"
    /\ gameStarted
    /\ Len(players) = 2
    /\ DOMAIN roundData = {0, 1}

\* C12: addPlayer changes nothing when six players are present or when the name
\* entered is empty after trimming; otherwise it appends exactly one player, with
\* the trimmed name and totalScore 0, at the end of the sequence.
C12_AddPlayer ==
    [][\A playerName \in NameInputs :
          (SetupScreen /\ Apply(addPlayer(Live, playerName), <<>>)) =>
             IF Len(players) >= MaxPlayers \/ Trim(playerName) = <<>>
             THEN UNCHANGED <<gameStarted, players, currentRound, roundPhase, roundData,
                              gameHistory, phaseHistory>>
             ELSE /\ players' = Append(players, [name |-> Trim(playerName), totalScore |-> 0])
                  /\ UNCHANGED <<gameStarted, currentRound, roundPhase, roundData,
                                 gameHistory, phaseHistory>>]_vars

\* C12 witness: addPlayer returned early with six players present
C12_Witness ==
    /\ branch = "addPlayer:skip"
    /\ Len(players) = MaxPlayers

\* C13: after resetGame every totalScore is 0, gameStarted is false, currentRound
\* is 1, roundPhase is bidding, roundData, gameHistory and the undo log are
\* empty, and the number, order and names of the players are unchanged.
C13_ResetGame ==
    [][CompleteScreen =>
          /\ branch' = "resetGame"
          /\ ~ gameStarted'
          /\ currentRound' = 1
          /\ roundPhase' = "bidding"
          /\ roundData' = EmptyMap
          /\ gameHistory' = <<>>
          /\ phaseHistory' = <<>>
          /\ Len(players') = Len(players)
          /\ \A p \in 1..Len(players) :
                /\ players'[p].name = players[p].name
                /\ players'[p].totalScore = 0]_vars

\* C13 witness: a reset has just returned a roster of two to the setup screen
C13_Witness ==
    /\ branch = "resetGame"
    /\ ~ gameStarted
    /\ Len(players) = 2
    /\ currentRound = 1

\* C14: a confirmed endGameEarly from bidding or scoring changes roundPhase to
\* complete and nothing else: players, gameHistory, currentRound, roundData and
\* the undo log are unchanged, whatever the tricks entered.
C14_EndGameEarlyFrame ==
    [][((BiddingScreen \/ ScoringScreen) /\ roundPhase' = "complete" /\ ~ FinishCommitted')
          => UNCHANGED <<gameStarted, players, gameHistory, currentRound, roundData,
                         phaseHistory>>]_vars

\* C14 witness: the game was ended from the scoring phase of round 2 with one
\* trick entered, and the totals are those of round 1
C14_Witness ==
    /\ CompleteScreen
    /\ currentRound = 2
    /\ roundData[0].tricks = 1
    /\ TotalTricks(roundData) # currentRound
    /\ Len(gameHistory) = 1
    /\ \A i \in Indices(players) : players[i + 1].totalScore = HistoryTotal(gameHistory, i)

\* C15: currentRound is between 1 and 10 in every reachable state, under any
\* sequence of startGame, finishRound, undo, endGameEarly and resetGame.
C15_RoundInRange ==
    1 <= currentRound /\ currentRound <= LastRound

\* C15 witness: an undo from the scoring phase of round 10 is back in its
\* bidding phase
C15_Witness ==
    /\ branch = "performUndo"
    /\ currentRound = LastRound
    /\ roundPhase = "bidding"

\* C16: a finishRound that passes validation in round 10 records round 10 in
\* gameHistory with the round inputs and their scores, brings the totals up to
\* date and sets roundPhase to complete; currentRound, roundData and the undo
\* log are left as they were.
C16_LastRoundCompletes ==
    [][(ScoringScreen /\ currentRound = LastRound /\ FinishCommitted')
          => /\ \E j \in 1..Len(gameHistory') :
                   /\ gameHistory'[j].round = LastRound
                   /\ DOMAIN gameHistory'[j].scores = Indices(players)
                   /\ \A i \in Indices(players) :
                         /\ InputsOf(gameHistory'[j].scores[i]) = roundData[i]
                         /\ gameHistory'[j].scores[i].score
                               = ExpectedScore(roundData[i].bid, roundData[i].tricks,
                                               roundData[i].piratesCapture,
                                               roundData[i].skullKingCapture, LastRound)
             /\ \A i \in Indices(players) :
                   players'[i + 1].totalScore = HistoryTotal(gameHistory', i)
             /\ roundPhase' = "complete"
             /\ UNCHANGED <<currentRound, roundData, phaseHistory>>]_vars

\* C16 witness: round 10 was finished with player 0 taking all ten tricks; the
\* game is complete with ten entries and the nineteen snapshots it had
C16_Witness ==
    /\ FinishCommitted
    /\ roundPhase = "complete"
    /\ currentRound = LastRound
    /\ Len(gameHistory) = LastRound
    /\ roundData[0].tricks = LastRound
    /\ Len(phaseHistory) = 19

\* C17: setBid, updateTricks, updatePiratesCapture and toggleSkullKingCapture
\* called with a player index that has no roundData entry are no-ops: roundData
\* gains no key and no other field changes.
C17_AbsentIndexNoOp ==
    [][(branch' \in {"setBid:absent", "updateTricks:skip", "updatePiratesCapture:skip",
                     "toggleSkullKingCapture:skip"})
          => /\ DOMAIN roundData' = DOMAIN roundData
             /\ UNCHANGED <<gameStarted, players, currentRound, roundPhase, roundData,
                            gameHistory, phaseHistory>>]_vars

\* a zero bid or a missed bid
NoBonusCase(d) == d.bid = 0 \/ d.bid # d.tricks

\* C19: for a zero bid or a missed bid the score does not depend on
\* piratesCapture and skullKingCapture: every two inputs that differ only in
\* them score the same, and the score finishRound stores next to the captures
\* entered is the score of the same input without captures.
C19_BonusOnlyWhenBidMet ==
    /\ ScoringScreen =>
          \A i \in DOMAIN roundData :
             NoBonusCase(roundData[i]) =>
                \A pirates \in 0..MaxPiratesCapture, skull \in BOOLEAN :
                   calculateScore([roundData[i] EXCEPT !.piratesCapture = pirates,
                                                       !.skullKingCapture = skull],
                                  currentRound)
                      = calculateScore(roundData[i], currentRound)
    /\ FinishCommitted =>
          LET e == gameHistory[Len(gameHistory)]
          IN \A i \in DOMAIN e.scores :
                NoBonusCase(e.scores[i]) =>
                   e.scores[i].score
                      = ExpectedScore(e.scores[i].bid, e.scores[i].tricks, 0, FALSE, e.round)

\* C19 witness: round 3 stored a missed bid of 2 with 3 pirates and the Skull
\* King entered, scored -10
C19_Witness ==
    /\ FinishCommitted
    /\ gameHistory[Len(gameHistory)].round = 3
    /\ gameHistory[Len(gameHistory)].scores[0] =
          [bid |-> 2, tricks |-> 1, piratesCapture |-> 3, skullKingCapture |-> TRUE,
           score |-> -10]

\* C20: confirmBids in the bidding phase succeeds whatever the bids are: it sets
\* roundPhase to scoring and pushes exactly one snapshot, equal to the live
\* state before the transition (phase bidding); roundData, players,
\* currentRound and gameHistory are unchanged.
C20_ConfirmBids ==
    [][/\ BiddingScreen => confirmBids(Live).roundPhase = "scoring"
       /\ (BiddingScreen /\ roundPhase' = "scoring" /\ currentRound' = currentRound)
             => /\ phaseHistory' =
                      Append(phaseHistory,
                             Snapshot(roundData, players, currentRound, "bidding", gameHistory))
                /\ UNCHANGED <<gameStarted, roundData, players, currentRound, gameHistory>>]_vars

\* C20 witness: the bids of round 2 were confirmed with a sum of 1, and the
\* newest snapshot is the bidding phase they were confirmed in
C20_Witness ==
    /\ ScoringScreen
    /\ confirmedFrom # <<>>
    /\ ~ confirmedFrom[2]
    /\ currentRound = 2
    /\ roundData[0].bid = 1
    /\ roundData[1].bid = 0
    /\ phaseHistory[Len(phaseHistory)].roundPhase = "bidding"
    /\ phaseHistory[Len(phaseHistory)].roundData = roundData

\* the item holds no text JSON.parse reads
Unreadable(item) == item \in {NoItem, EmptyText, NotJSON}

\* C18: on load each of the seven persisted fields is read on its own: a field
\* whose stored value is missing or cannot be parsed takes its default
\* (gameStarted false, players empty, currentRound 1, roundPhase bidding,
\* roundData, gameHistory and undo log empty), the other fields take their
\* stored values, and the load never fails.
C18_LoadFallsBack ==
    (branch \in {"load", "usePersistedState:throws"}) =>
       /\ branch = "load"
       /\ \A k \in Keys :
             Live[k] = IF Unreadable(stored[k]) THEN Fresh[k] ELSE stored[k].value

\* C21 as stated: roundData's key set is exactly 0..|players|-1 in every
\* reachable state whose roundPhase is bidding or scoring, the setup state
\* before startGame and the state right after resetGame included.
C21_KeysInEveryPhase ==
    roundPhase \in {"bidding", "scoring"} => DOMAIN roundData = Indices(players)

\* C21 amended: roundData's key set is exactly 0..|players|-1 in every
\* reachable state of a started game whose roundPhase is bidding or scoring; on
\* the setup screen roundData is empty whatever the roster.
C21_KeysWhileStarted ==
    /\ (gameStarted /\ roundPhase \in {"bidding", "scoring"})
          => DOMAIN roundData = Indices(players)
    /\ ~ gameStarted => roundData = EmptyMap

\* C21 witness: round 2 has been finished and round 3 opens with an entry for
\* each of the two players
C21_Witness ==
    /\ FinishCommitted
    /\ BiddingScreen
    /\ currentRound = 3
    /\ Len(players) = 2
    /\ DOMAIN roundData = {0, 1}

\* C22: in every reachable state every roundData entry has 0 <= bid <=
\* currentRound, 0 <= tricks <= currentRound and 0 <= piratesCapture <= 5, bids
\* being entered from 0..currentRound; this holds across round advance and
\* undo, and updateTricks and updatePiratesCapture saturate for any delta.
C22_InputsInRange ==
    \A i \in DOMAIN roundData :
       /\ 0 <= roundData[i].bid /\ roundData[i].bid <= currentRound
       /\ 0 <= roundData[i].tricks /\ roundData[i].tricks <= currentRound
       /\ 0 <= roundData[i].piratesCapture
       /\ roundData[i].piratesCapture <= MaxPiratesCapture

\* C22 witness: an undo from the bidding phase of round 3 restored round 2
\* with bid 2, 2 tricks and 5 pirates, each at its upper bound
C22_Witness ==
    /\ branch = "performUndo"
    /\ ScoringScreen
    /\ currentRound = 2
    /\ roundData[0].bid = 2
    /\ roundData[0].tricks = 2
    /\ roundData[0].piratesCapture = MaxPiratesCapture

\* C23: every gameHistory entry satisfies the finalization precondition: the
\* tricks of its per-player scores sum to the entry's round number, in every
\* reachable state, after undo and re-finalization too.
C23_HistoryTricksSumToRound ==
    \A j \in 1..Len(gameHistory) :
       TotalTricks(gameHistory[j].scores) = gameHistory[j].round

\* every player present before and after the step keeps the same totalScore
TotalsKept ==
    \A p \in 1..Min(Len(players), Len(players')) :
       players'[p].totalScore = players[p].totalScore

\* C24 as stated: a player's totalScore changes only through a successful
\* finishRound or through resetGame; no other operation, undo included,
\* changes an existing player's totalScore.
C24_TotalsChangeOnlyByFinishOrReset ==
    [][TotalsKept \/ FinishCommitted' \/ branch' = "resetGame"]_vars

\* C24 amended: a player's totalScore changes only through a successful
\* finishRound, through resetGame, or through an undo, which sets players to
\* the players of the snapshot it pops; no other operation changes it.
C24_TotalsChangeByFinishResetUndo ==
    [][\/ TotalsKept
       \/ FinishCommitted'
       \/ branch' = "resetGame"
       \/ /\ branch' = "performUndo"
          /\ Len(phaseHistory) > 0
          /\ players' = phaseHistory[Len(phaseHistory)].players]_vars

\* C24 witness: an undo has returned to the scoring phase of the finalized
\* round 1 and the snapshot now on top of the log, taken at confirmBids, holds
\* other totals than the live players: the next undo changes totalScore
C24_Witness ==
    /\ branch = "performUndo"
    /\ ScoringScreen
    /\ currentRound = 1
    /\ Len(gameHistory) = 1
    /\ Len(phaseHistory) > 0
    /\ phaseHistory[Len(phaseHistory)].roundPhase = "bidding"
    /\ \E p \in 1..Len(players) :
          phaseHistory[Len(phaseHistory)].players[p].totalScore # players[p].totalScore

\* the step leaves the session as handler result t describes it
Took(t) ==
    /\ gameStarted' = t.gameStarted
    /\ players' = t.players
    /\ currentRound' = t.currentRound
    /\ roundPhase' = t.roundPhase
    /\ roundData' = t.roundData
    /\ gameHistory' = t.gameHistory
    /\ phaseHistory' = t.phaseHistory
    /\ alert' = t.alert
    /\ branch' = t.branch

\* the step changes at most the given field of player index i's entry, and
\* the snapshot the last confirmBids pushed still holds the values from
\* before the edits
OnlyField(i, field) ==
    /\ DOMAIN roundData' = DOMAIN roundData
    /\ \A k \in DOMAIN roundData : k # i => roundData'[k] = roundData[k]
    /\ DOMAIN roundData'[i] = DOMAIN roundData[i]
    /\ \A f \in DOMAIN roundData[i] : f # field => roundData'[i][f] = roundData[i][f]
    /\ UNCHANGED <<gameStarted, players, gameHistory, currentRound, roundPhase, phaseHistory>>
    /\ (ScoringScreen /\ confirmedFrom # <<>>) =>
          /\ Len(phaseHistory') > 0
          /\ \A f \in {"roundData", "players", "currentRound", "roundPhase", "gameHistory"} :
                phaseHistory'[Len(phaseHistory')][f] = confirmedFrom[1][f]

\* C25: setBid, updateTricks, updatePiratesCapture and toggleSkullKingCapture
\* on an existing player index change only their one field of that player's
\* roundData entry: the other entries, players, gameHistory, currentRound,
\* roundPhase and every snapshot in the undo log are unchanged, and the
\* snapshot taken before the edit still holds the pre-edit values.
C25_EditChangesOneField ==
    [][(BiddingScreen \/ ScoringScreen) =>
          \A i \in Indices(players) \cap DOMAIN roundData :
             /\ \A value \in 0 .. currentRound :
                   Took(setBid(Live, i, value)) => OnlyField(i, "bid")
             /\ \A delta \in {-1, 1} :
                   /\ Took(updateTricks(Live, i, delta)) => OnlyField(i, "tricks")
                   /\ Took(updatePiratesCapture(Live, i, delta))
                         => OnlyField(i, "piratesCapture")
             /\ Took(toggleSkullKingCapture(Live, i)) => OnlyField(i, "skullKingCapture")]_vars

\* C25 witness: after confirmBids with bid 0, player 0's entry was edited in
\* every field while the snapshot on top of the undo log still holds the
\* entry as it was at the confirmation
C25_Witness ==
    /\ ScoringScreen
    /\ confirmedFrom # <<>>
    /\ confirmedFrom[2]
    /\ roundData[0] = [bid |-> 1, tricks |-> 1, piratesCapture |-> 2,
                       skullKingCapture |-> TRUE]
    /\ roundData[1] = ZeroRoundData
    /\ Len(phaseHistory) > 0
    /\ phaseHistory[Len(phaseHistory)].roundData[0] = ZeroRoundData

\* C26: the number, order and names of the players never change while
\* gameStarted is true: between startGame and resetGame no operation adds,
\* removes or reorders a player.
C26_RosterFixedWhileStarted ==
    [][(gameStarted /\ gameStarted') =>
          /\ Len(players') = Len(players)
          /\ \A p \in 1..Len(players) : players'[p].name = players[p].name]_vars

\* C26 witness: round 1 of the game of A and B was finalized with B ahead of
\* A, and the players are still A then B
C26_Witness ==
    /\ gameStarted
    /\ FinishCommitted
    /\ Len(players) = 2
    /\ players[1].name = <<"A">>
    /\ players[2].name = <<"B">>
    /\ players[2].totalScore > players[1].totalScore

\* C27: complete is terminal: once roundPhase is complete, by finishing round
\* 10 or by endGameEarly, no operation other than resetGame changes
\* roundPhase, currentRound, players or gameHistory; undo does not leave the
\* complete phase although the undo log is not empty.
C27_CompleteIsTerminal ==
    [][CompleteScreen =>
          \/ UNCHANGED <<gameStarted, roundPhase, currentRound, players, gameHistory>>
          \/ branch' = "resetGame"]_vars

\* C27 witness: the game was completed by finishing round 10 and the undo
\* log holds the confirmBids snapshot of round 10
C27_Witness ==
    /\ CompleteScreen
    /\ FinishCommitted
    /\ currentRound = LastRound
    /\ Len(gameHistory) = LastRound
    /\ Len(phaseHistory) > 0
    /\ phaseHistory[Len(phaseHistory)].roundPhase = "bidding"
    /\ phaseHistory[Len(phaseHistory)].currentRound = LastRound

\* C28: clearPlayers and endGameEarly change state only when the caller
\* confirms: when the confirmation is declined every session field is
\* unchanged; when clearPlayers is confirmed the player sequence is empty.
C28_ConfirmationGates ==
    [][/\ (SetupScreen /\ Took(clearPlayers(Live, FALSE)))
             => UNCHANGED <<gameStarted, players, currentRound, roundPhase, roundData,
                            gameHistory, phaseHistory>>
       /\ (SetupScreen /\ Took(clearPlayers(Live, TRUE))) => players' = <<>>
       /\ ((BiddingScreen \/ ScoringScreen) /\ Took(endGameEarly(Live, FALSE)))
             => UNCHANGED <<gameStarted, players, currentRound, roundPhase, roundData,
                            gameHistory, phaseHistory>>]_vars

\* C28 witness: clearPlayers was declined with two players seated
C28_Witness ==
    /\ branch = "clearPlayers:skip"
    /\ SetupScreen
    /\ Len(players) = 2

\* the session a reload would construct from what is stored now
Reloaded == LoadSession(ReadFields(stored))

\* C29: persistence is write-through for the whole session state: whenever
\* an operation has completed, each of the seven stored keys holds the text
\* of the live field, that text parses back to the live value, and a reload
\* resumes from exactly the live state, never from a mixture of fields.
C29_StoredIsLive ==
    \A k \in Keys :
       /\ stored[k] = JSONText(Live[k])
       /\ Parse(k, Stringify(k, Live[k])) = Live[k]
       /\ Reloaded[k] = Live[k]

\* C29 witness: a finishRound that wrote players, gameHistory, the undo log,
\* roundData, currentRound and roundPhase at once, with a negative total
C29_Witness ==
    /\ FinishCommitted
    /\ BiddingScreen
    /\ currentRound = 3
    /\ Len(phaseHistory) >= 4
    /\ \E p \in 1..Len(players) : players[p].totalScore < 0
    /\ stored["phaseHistory"] = JSONText(phaseHistory)
    /\ stored["players"] = JSONText(players)

\* every player index has a whole roundData entry and a score in every
\* gameHistory entry: what finishRound, the scoring screen and the edits read
EntriesPresent ==
    /\ \A i \in Indices(players) :
          i \in DOMAIN roundData /\ DOMAIN roundData[i] = DOMAIN ZeroRoundData
    /\ \A j \in 1..Len(gameHistory) :
          \A i \in Indices(players) :
             i \in DOMAIN gameHistory[j].scores /\ "score" \in DOMAIN gameHistory[j].scores[i]

\* the session fields are as before the call
NoOp ==
    UNCHANGED <<gameStarted, players, currentRound, roundPhase, roundData, gameHistory,
                phaseHistory>>

\* the invalid inputs the controls can supply: finishRound on a wrong trick
\* sum, undo on an empty log, startGame with fewer than two players, addPlayer
\* with an empty name or a full roster
InvalidInputRejected ==
    /\ (ScoringScreen /\ FinishInvoked' /\ TotalTricks(roundData) # currentRound)
          => (alert' = "totalTricks" /\ NoOp)
    /\ ((BiddingScreen \/ ScoringScreen) /\ phaseHistory = <<>>
           /\ branch' \in {"performUndo", "performUndo:skip"}) => NoOp
    /\ (SetupScreen /\ Len(players) < 2 /\ branch' \in {"startGame", "startGame:skip"})
          => NoOp
    /\ branch' = "addPlayer:skip" => NoOp

\* C30: no operation fails fatally in any reachable state: wherever
\* finishRound, the scoring edits or undo can be invoked every player index
\* has a roundData entry and every gameHistory entry has a score for every
\* player index, and every invalid input ends as a no-op or as the
\* finishRound validation message.
C30_NoFatalFailure ==
    [][/\ (BiddingScreen \/ ScoringScreen) => EntriesPresent
       /\ (BiddingScreen \/ ScoringScreen)' => EntriesPresent'
       /\ InvalidInputRejected]_vars

\* the step is a confirmBids
ConfirmStep == BiddingScreen /\ branch' = "none" /\ roundPhase' = "scoring"

\* the step is a finishRound that passed validation before the last round
AdvanceStep == ScoringScreen /\ FinishCommitted' /\ currentRound < LastRound

\* C31: the undo log changes only at the defined points: it grows by one
\* snapshot on confirmBids and on a successful finishRound with currentRound
\* < 10, shrinks by one on undo, is emptied by startGame and resetGame, and is
\* unchanged by every other operation (failed finishRound, finishRound at
\* round 10, endGameEarly, the roundData edits, the roster operations).
C31_LogChangesAtCheckpoints ==
    [][/\ ConfirmStep =>
             phaseHistory' = Append(phaseHistory,
                                    Snapshot(roundData, players, currentRound, "bidding",
                                             gameHistory))
       /\ AdvanceStep =>
             /\ Len(phaseHistory') = Len(phaseHistory) + 1
             /\ SubSeq(phaseHistory', 1, Len(phaseHistory)) = phaseHistory
             /\ phaseHistory'[Len(phaseHistory')].roundPhase = "scoring"
       /\ branch' = "performUndo" =>
             /\ Len(phaseHistory) > 0
             /\ phaseHistory' = SubSeq(phaseHistory, 1, Len(phaseHistory) - 1)
       /\ branch' \in {"startGame", "resetGame"} => phaseHistory' = <<>>
       /\ ~ (ConfirmStep \/ AdvanceStep
               \/ branch' \in {"performUndo", "startGame", "resetGame"})
             => UNCHANGED phaseHistory]_vars

\* C31 witness: round 9 was finalized again after an undo and the log, cut to
\* seventeen snapshots by the undo, holds eighteen again
C31_Witness ==
    /\ branch = "finishRound:replace"
    /\ BiddingScreen
    /\ currentRound = LastRound
    /\ Len(phaseHistory) = 18
    /\ phaseHistory[18].roundPhase = "scoring"
    /\ phaseHistory[18].currentRound = LastRound - 1

\* C32: the length of the undo log is determined by the position in the
\* game: 2*(currentRound-1) in every bidding state and 2*currentRound-1 in
\* every scoring state of a started game, whatever undo and redo led there;
\* hence it never exceeds 19 and no push ever discards the oldest snapshot.
C32_LogLengthByPosition ==
    /\ BiddingScreen => Len(phaseHistory) = 2 * (currentRound - 1)
    /\ ScoringScreen => Len(phaseHistory) = 2 * currentRound - 1
    /\ gameStarted => Len(phaseHistory) <= MaxSnapshots - 1

\* C32 witness: an undo out of the scoring phase of round 10, where the log
\* held nineteen snapshots, is back in its bidding phase with eighteen
C32_Witness ==
    /\ branch = "performUndo"
    /\ BiddingScreen
    /\ currentRound = LastRound
    /\ confirmedFrom # <<>>
    /\ Len(phaseHistory) = 18
    /\ roundData[0].bid = 1

\* the history holds the rounds 1..k in ascending order, one entry each
RoundsUpTo(gh, k) == Len(gh) = k /\ \A j \in 1..k : gh[j].round = j

\* C33: gameHistory is always the rounds 1..k in ascending order without
\* gaps, with k = currentRound-1 in every bidding state and k = currentRound-1
\* or currentRound in every scoring state; it never holds an entry for a round
\* greater than currentRound, so a round is never finalized again while a
\* later round's entry is in the history.
C33_HistoryIsPrefix ==
    /\ BiddingScreen => RoundsUpTo(gameHistory, currentRound - 1)
    /\ ScoringScreen =>
          \/ RoundsUpTo(gameHistory, currentRound - 1)
          \/ RoundsUpTo(gameHistory, currentRound)
    /\ gameStarted => \A j \in 1..Len(gameHistory) : gameHistory[j].round <= currentRound

\* C33 witness: an undo from the bidding phase of round 2 is back in the
\* scoring phase of round 1, and the history still holds the entry of round 1
C33_Witness ==
    /\ branch = "performUndo"
    /\ ScoringScreen
    /\ currentRound = 1
    /\ Len(phaseHistory) = 1
    /\ RoundsUpTo(gameHistory, 1)
    /\ gameHistory[1].scores[0].score # 0

\* the session as the next handler finds it: the result of a handler,
\* re-rendered
Rendered(t) == [t EXCEPT !.alert = "none", !.branch = "none"]

\* the session after finishRound on the live state
FinishedOnce == Rendered(finishRound(Live))

\* the session after finishRound, undo and finishRound again
FinishedAgain == Rendered(finishRound(Rendered(performUndo(FinishedOnce))))

\* C34: finishRound, then undo, then finishRound again with unchanged
\* roundData yields exactly the state the first finishRound produced: the
\* same totals, the same gameHistory without a duplicate entry, the same
\* currentRound, phase, roundData and undo log.
C34_RefinishIsIdempotent ==
    (ScoringScreen /\ TotalTricks(roundData) = currentRound /\ currentRound < LastRound)
       => /\ FinishedAgain = FinishedOnce
          /\ UniqueRounds(FinishedAgain.gameHistory)
          /\ Rendered(performUndo(FinishedOnce)).roundData = roundData

\* C34 witness: round 2 was finalized, undone and finalized again with the
\* inputs the undo restored: one entry a round, four snapshots, and the
\* newest snapshot holds the totals and the history of the live state
C34_Witness ==
    /\ branch = "finishRound:replace"
    /\ BiddingScreen
    /\ currentRound = 3
    /\ RoundsUpTo(gameHistory, 2)
    /\ Len(phaseHistory) = 4
    /\ phaseHistory[4].players = players
    /\ phaseHistory[4].gameHistory = gameHistory
    /\ players[1].totalScore # 0

\* C35: every stored RoundScore is consistent with its own entry: for each
\* gameHistory entry e and player i, e.scores[i].score is the scoring formula
\* applied to the bid, tricks, piratesCapture and skullKingCapture of
\* e.scores[i] with round number e.round, also for entries written by a
\* re-finalization after undo.
C35_StoredScoresConsistent ==
    \A j \in 1..Len(gameHistory) :
       \A i \in DOMAIN gameHistory[j].scores :
          LET e == gameHistory[j].scores[i]
          IN /\ e.score = calculateScore(InputsOf(e), gameHistory[j].round)
             /\ e.score = ExpectedScore(e.bid, e.tricks, e.piratesCapture,
                                        e.skullKingCapture, gameHistory[j].round)

\* C35 witness: round 2 was finalized again after an undo with a met bid of 2
\* and three pirates, stored as 130 points
C35_Witness ==
    /\ branch = "finishRound:replace"
    /\ Len(gameHistory) = 2
    /\ gameHistory[2].round = 2
    /\ gameHistory[2].scores[0] =
          [bid |-> 2, tricks |-> 2, piratesCapture |-> 3, skullKingCapture |-> FALSE,
           score |-> 130]

\* C36: every snapshot in the undo log is itself a consistent state: its
\* players' totalScore values are the sums of the scores in its own
\* gameHistory, its roundData keys are exactly its players' indices, and the
\* snapshot at 0-based position j records round floor(j/2)+1, with phase
\* bidding when j is even and scoring when j is odd.
C36_SnapshotsConsistent ==
    \A h \in 1..Len(phaseHistory) :
       LET snapshot == phaseHistory[h]
           j == h - 1
       IN /\ \A i \in Indices(snapshot.players) :
                snapshot.players[i + 1].totalScore = HistoryTotal(snapshot.gameHistory, i)
          /\ DOMAIN snapshot.roundData = Indices(snapshot.players)
          /\ snapshot.currentRound = (j \div 2) + 1
          /\ snapshot.roundPhase = IF j % 2 = 0 THEN "bidding" ELSE "scoring"

\* C36 witness: four snapshots after round 2 was finalized again, the newest
\* one with non-zero totals over a history of two rounds
C36_Witness ==
    /\ branch = "finishRound:replace"
    /\ Len(phaseHistory) = 4
    /\ Len(phaseHistory[4].gameHistory) = 2
    /\ phaseHistory[4].players[1].totalScore # 0
    /\ phaseHistory[3].players[1].totalScore # phaseHistory[4].players[1].totalScore

\* C37: in every bidding state of a started game every player's tricks is 0,
\* piratesCapture is 0 and skullKingCapture is false (only the bid may be
\* non-zero), whether the state was reached by startGame, by finishRound or
\* by an undo from scoring; so finishRound could not pass validation there.
C37_BiddingInputsZero ==
    BiddingScreen =>
       /\ \A i \in DOMAIN roundData :
             /\ roundData[i].tricks = 0
             /\ roundData[i].piratesCapture = 0
             /\ roundData[i].skullKingCapture = FALSE
       /\ finishRound(Live).branch = "finishRound:invalid"

\* C37 witness: an undo out of the scoring phase of round 1, where round
\* inputs had been edited, is back in bidding with the bid alone
C37_Witness ==
    /\ branch = "performUndo"
    /\ BiddingScreen
    /\ currentRound = 1
    /\ confirmedFrom # <<>>
    /\ confirmedFrom[2]
    /\ roundData[0] = [ZeroRoundData EXCEPT !.bid = 1]

\* nothing is recorded: no history, no snapshot, every total 0
NothingRecorded ==
    /\ gameHistory = <<>>
    /\ phaseHistory = <<>>
    /\ \A p \in 1..Len(players) : players[p].totalScore = 0

\* C38: nothing of a previous game survives into a new one: after resetGame
\* and after the startGame that follows, gameHistory is empty, every
\* totalScore is 0 and the undo log is empty, and the bidding phase of round
\* 1, the furthest an undo leads back, holds nothing of the earlier game.
C38_NothingSurvivesReset ==
    /\ SetupScreen => NothingRecorded
    /\ branch = "startGame" => NothingRecorded
    /\ (BiddingScreen /\ currentRound = 1) => NothingRecorded

\* C38 witness: in the game started after the reset, an undo in the bidding
\* phase of round 1 found an empty log and restored nothing
C38_Witness ==
    /\ branch = "performUndo:skip"
    /\ BiddingScreen
    /\ currentRound = 1
    /\ NothingRecorded
    /\ roundData[0].bid = 1

====
